---- MODULE Spec2Model ----
(***************************************************************************)
(* Model of grubbit's asset resolution engine (src/lib/asset.js):          *)
(* resolvePackageUrl, AssetDB.installPackage / fetchPackage / getAsset /   *)
(* deletePackage / clearAll, over the two Dexie tables `assets` and        *)
(* `packages`.                                                             *)
(*                                                                         *)
(* A JavaScript string is a sequence of tokens.  "@", "/" and the first    *)
(* letter of a bare path are one-character tokens, so that startsWith,     *)
(* substring(1) and split('/') act on tokens as they act on characters.    *)
(* Every `await` of a store or network operation is a step of its own;     *)
(* the synchronous code between two awaits belongs to one step.            *)
(***************************************************************************)
EXTENDS Integers, Sequences, FiniteSets, TLC

\* Largest value of the clock read by `new Date()`.
MaxTime == 2

\* The callers (async call chains) that may be active.
Callers == {"c1", "c2"}

----------------------------------------------------------------------------
\* Strings

Scheme == "https://"

\* util isURL: `new URL(str)` succeeds for an absolute URL with a host.
isURL(str) == Len(str) >= 2 /\ str[1] = Scheme /\ str[2] # "/"

\* String.prototype.startsWith for a one-character prefix.
startsWith(str, ch) == Len(str) >= 1 /\ str[1] = ch

\* String.prototype.substring(1): drops the first character.
substring1(str) == IF Len(str) = 0 THEN <<>> ELSE Tail(str)

\* String.prototype.split('/'): the parts between separators, at least one.
RECURSIVE split(_)
split(str) ==
  IF \A i \in 1..Len(str) : str[i] # "/"
  THEN <<str>>
  ELSE LET k == CHOOSE i \in 1..Len(str) :
                  str[i] = "/" /\ \A j \in 1..(i - 1) : str[j] # "/"
       IN  <<SubSeq(str, 1, k - 1)>> \o split(SubSeq(str, k + 1, Len(str)))

\* `const [packageId, resourceId] = asset.substring(1).split('/')`
packageIdOf(asset) == split(substring1(asset))[1]

\* resourceId is undefined when the split yields a single part.
resourceIdDefined(asset) == Len(split(substring1(asset))) >= 2

resourceIdOf(asset) == split(substring1(asset))[2]

\* `${repo}/${packageId}.zip`
archiveUrl(repo, packageId) == repo \o <<"/">> \o packageId \o <<".zip">>

\* `${base}/${asset}`
baseUrl(base, asset) == base \o <<"/">> \o asset

\* mime.lookup(filename): by extension, false when unknown.
mimeLookup(filename) ==
  IF Len(filename) = 0 THEN "false"
  ELSE CASE filename[Len(filename)] = ".png" -> "image/png"
         [] filename[Len(filename)] = ".gif" -> "image/gif"
         [] OTHER -> "false"

\* The JavaScript `key in array` operator: true for the array's indices
\* 0 .. length-1, whatever the elements are.
keyInArray(key, array) == key \in 0..(Len(array) - 1)

----------------------------------------------------------------------------
\* Configuration (the constructor's options) and the remote side

REPO == <<Scheme, "mock-assets.website">>
BASE == <<Scheme, "legacy-assets.website">>
BROKEN == <<Scheme, "broken.website">>

DEFAULT_REPOS == << <<Scheme, "assets.animatedchatroom.net">> >>

\* The repository lists a resolver is constructed with.
RepoLists == {DEFAULT_REPOS, <<REPO, BROKEN>>, <<>>}

\* The virtualBase option: undefined, or an array of URLs.
VirtualBases ==
  { [defined |-> FALSE, list |-> <<>>],
    [defined |-> TRUE, list |-> <<BROKEN, BASE>>] }

PkgA == <<"pkgA">>
PkgB == <<"pkgB">>
PkgC == <<"pkgC">>
PkgD == <<"pkgD">>
PkgE == <<"pkgE">>
PkgF == <<"pkgF">>
PkgG == <<"pkgG">>

H1 == <<"H1">>
H2 == <<"H2">>
H3 == <<"H3">>
H4 == <<"H4">>

NoManifest == [name |-> "", parent |-> <<>>, files |-> <<>>]

\* asset.json of the packages the repositories serve.  pkgA and pkgB share
\* the file of hash H1; pkgC declares pkgA as its parent; pkgD's archive
\* lacks the payload of its second file; pkgE declares itself as its
\* parent, pkgF and pkgG declare each other.
Manifest(id) ==
  CASE id = PkgA -> [name |-> "A", parent |-> <<>>,
                     files |-> << <<<<"a", ".png">>, H1>> >>]
    [] id = PkgB -> [name |-> "B", parent |-> <<>>,
                     files |-> << <<<<"b", ".png">>, H1>>, <<<<"c", ".gif">>, H2>> >>]
    [] id = PkgC -> [name |-> "C", parent |-> PkgA,
                     files |-> << <<<<"d", ".png">>, H3>> >>]
    [] id = PkgD -> [name |-> "D", parent |-> <<>>,
                     files |-> << <<<<"e", ".gif">>, H2>>, <<<<"f", ".png">>, H4>> >>]
    [] id = PkgE -> [name |-> "E", parent |-> PkgE,
                     files |-> << <<<<"g", ".png">>, H3>> >>]
    [] id = PkgF -> [name |-> "F", parent |-> PkgG,
                     files |-> << <<<<"h", ".png">>, H3>> >>]
    [] id = PkgG -> [name |-> "G", parent |-> PkgF,
                     files |-> << <<<<"i", ".gif">>, H2>> >>]
    [] OTHER -> NoManifest

KnownPackages == {PkgA, PkgB, PkgC, PkgD, PkgE, PkgF, PkgG}

\* The bytes a zip entry extracts to: files of one hash have the same bytes.
Bytes(hash) == <<"bytes">> \o hash

\* The payload entries of a package's archive.
Entries(id) ==
  { [name |-> Manifest(id).files[i][1], data |-> Bytes(Manifest(id).files[i][2])] :
      i \in { j \in 1..Len(Manifest(id).files) :
                ~(id = PkgD /\ Manifest(id).files[j][2] = H4) } }

\* What a repository may answer to the archive request: the package's
\* archive, bytes that are no zip, a zip without asset.json, a zip whose
\* asset.json is not JSON.
Archives(id) ==
  (IF id \in KnownPackages
   THEN {[zip |-> TRUE, json |-> "valid", manifest |-> Manifest(id), entries |-> Entries(id)]}
   ELSE {})
  \cup {[zip |-> FALSE, json |-> "missing", manifest |-> NoManifest, entries |-> {}],
        [zip |-> TRUE, json |-> "missing", manifest |-> NoManifest, entries |-> {}],
        [zip |-> TRUE, json |-> "malformed", manifest |-> NoManifest, entries |-> {}]}

\* Outcomes of a fetch: the promise rejects (transport failure) or a
\* response with a status arrives.
Failed == [state |-> "failed", status |-> 0]
Response(status) == [state |-> "response", status |-> status]

ProbeOutcomes == {Failed, Response(200), Response(404)}
FetchOutcomes == {Failed, Response(200), Response(404), Response(410), Response(500)}

\* Body and Content-Type a server sends for a URL.
Body(url) == <<"body">> \o url
ContentType(url) == mimeLookup(url)

----------------------------------------------------------------------------
\* State

VARIABLES
  repos,        \* this._repos
  virtualBase,  \* this._virtualBase
  assets,       \* table assets: records keyed by hash
  packages,     \* table packages: records keyed by id
  now,          \* the clock `new Date()` reads
  calls         \* per caller: the call in progress and its locals

vars == <<repos, virtualBase, assets, packages, now, calls>>

Undefined == [kind |-> "undefined", err |-> "", data |-> <<>>, type |-> ""]
Null == [kind |-> "null", err |-> "", data |-> <<>>, type |-> ""]
Pending == [kind |-> "pending", err |-> "", data |-> <<>>, type |-> ""]
Thrown(err) == [kind |-> "throw", err |-> err, data |-> <<>>, type |-> ""]
Blob(data, type) == [kind |-> "blob", err |-> "", data |-> data, type |-> type]

Unsettled == [state |-> "pending", value |-> <<>>]

\* The two tables as a value; a call to installPackage remembers in `pre`
\* the tables it was made on, and in `stopped` where the install it repeats
\* had stopped (history, read by no step).
Tables(a, p) == [assets |-> a, packages |-> p]
NoTables == Tables({}, {})
NotStopped == [pc |-> "", idx |-> 0]

Idle ==
  [op |-> "idle", pc |-> "idle", pkg |-> <<>>, asset |-> <<>>, cacheOnly |-> FALSE,
   vb |-> 0, net |-> <<>>, pending |-> 0, promise |-> Unsettled, arrivals |-> <<>>,
   manifest |-> NoManifest, files |-> {}, idx |-> 0, cleared |-> {},
   pre |-> NoTables, stopped |-> NotStopped, result |-> Pending]

\* Dexie Table.get on the primary key: the stored records with that key.
assetsGet(tbl, hash) == {a \in tbl : a.hash = hash}
packagesGet(tbl, id) == {r \in tbl : r.id = id}

\* Dexie Table.put: insert, or replace the record of the same primary key.
assetsPut(tbl, rec) == {a \in tbl : a.hash # rec.hash} \cup {rec}
packagesPut(tbl, rec) == {r \in tbl : r.id # rec.id} \cup {rec}

Init ==
  /\ repos \in RepoLists
  /\ virtualBase \in VirtualBases
  /\ assets = {}
  /\ packages = {}
  /\ now = 1
  /\ calls = [p \in Callers |-> Idle]

Quiescent == \A q \in Callers : calls[q] = Idle

Request(method, url) == [method |-> method, url |-> url, state |-> "inflight", status |-> 0]

Inflight(c) == {i \in 1..Len(c.net) : c.net[i].state = "inflight"}

\* An async function ends by throwing: its promise rejects with err.
Throw(c, err) == [c EXCEPT !.pc = "done", !.result = Thrown(err)]

\* An async function ends by returning `value`.
Finish(c, value) == [c EXCEPT !.pc = "done", !.result = value]

----------------------------------------------------------------------------
\* resolvePackageUrl

\* The promise of `new Promise((resolve, reject) => ...)`: settling a
\* settled promise does nothing.
promiseResolveLast(promise, url) == [state |-> "resolved", value |-> url]

promiseResolve(promise, url) ==
  IF promise.state = "pending" THEN [state |-> "resolved", value |-> url] ELSE promise

promiseReject(promise) ==
  IF promise.state = "pending" THEN [state |-> "rejected", value |-> <<>>] ELSE promise

\* The executor: `pending = repos.length`, then one OPTIONS request per
\* repository, all sent before any response is handled.
resolvePackageUrl(c) ==
  [c EXCEPT !.pc = "probing",
            !.pending = Len(repos),
            !.promise = Unsettled,
            !.arrivals = <<>>,
            !.net = c.net \o [i \in 1..Len(repos) |->
                                Request("OPTIONS", archiveUrl(repos[i], c.pkg))]]

\* `.then`: status 200 resolves with the probed url; fetchPackage's
\* `.then(url => fetch(url))` runs once, when the promise resolves.
probeOk(c, url) ==
  IF c.promise.state = "pending"
  THEN [c EXCEPT !.promise = promiseResolve(c.promise, url),
                 !.pc = "fetching",
                 !.net = Append(c.net, Request("GET", url))]
  ELSE [c EXCEPT !.promise = promiseResolve(c.promise, url)]

\* `.catch`: `if (--pending === 0) reject(...)`; the rejection reaches the
\* caller of installPackage.
probeFailed(c) ==
  LET d == [c EXCEPT !.pending = c.pending - 1,
                     !.promise = IF c.pending - 1 = 0 THEN promiseReject(c.promise)
                                 ELSE c.promise]
  IN  IF c.pending - 1 = 0 /\ c.promise.state = "pending"
      THEN Throw(d, "No repositories contain package")
      ELSE d

\* The response to one OPTIONS probe arrives (at any time after it was sent).
ProbeResponse(p, i) ==
  LET c == calls[p] IN
  /\ i \in Inflight(c)
  /\ c.net[i].method = "OPTIONS"
  /\ \E out \in ProbeOutcomes :
       LET d == [c EXCEPT !.net[i].state = out.state,
                          !.net[i].status = out.status,
                          !.arrivals = Append(c.arrivals, i)]
       IN  calls' = [calls EXCEPT ![p] =
                       IF out.state = "response" /\ out.status = 200
                       THEN probeOk(d, c.net[i].url)
                       ELSE probeFailed(d)]
  /\ UNCHANGED <<repos, virtualBase, assets, packages, now>>

----------------------------------------------------------------------------
\* installPackage

packageInstalledNever(tbl, id) == FALSE

\* `if (await db.packages.get(packageId)) return;`
packageInstalled(tbl, id) == packagesGet(tbl, id) # {}

\* installPackage returns: to its caller, or into getAsset after line 185.
afterInstall(c) ==
  IF c.op = "getAsset" THEN [c EXCEPT !.pc = "ga_reget"] ELSE Finish(c, Undefined)

\* `for (const filename in manifest.files)`: the next file, or the end.
forNextEarlyRecord(c, i) ==
  IF i >= Len(c.manifest.files)
  THEN [c EXCEPT !.idx = i, !.pc = "pkg_put"]
  ELSE [c EXCEPT !.idx = i, !.pc = "loop_get"]

forNext(c, i) ==
  IF i > Len(c.manifest.files)
  THEN [c EXCEPT !.idx = i, !.pc = "pkg_put"]
  ELSE [c EXCEPT !.idx = i, !.pc = "loop_get"]

unpackIgnoringParent(c, arch) ==
  IF ~arch.zip THEN Throw(c, "Error")
  ELSE IF arch.json = "missing" THEN Throw(c, "TypeError")
  ELSE IF arch.json = "malformed" THEN Throw(c, "SyntaxError")
  ELSE forNext([c EXCEPT !.manifest = arch.manifest, !.files = arch.entries], 1)

\* extractZip, JSON.parse of asset.json, and the parent install.  The
\* call `installPackage(manifest.parent)` names no binding of the module
\* (the method is this.installPackage): it throws a ReferenceError.
unpack(c, arch) ==
  IF ~arch.zip THEN Throw(c, "Error")
  ELSE IF arch.json = "missing" THEN Throw(c, "TypeError")
  ELSE IF arch.json = "malformed" THEN Throw(c, "SyntaxError")
  ELSE IF arch.manifest.parent # <<>> THEN Throw(c, "ReferenceError")
  ELSE forNext([c EXCEPT !.manifest = arch.manifest, !.files = arch.entries], 1)

pushOwnerPersisted(tbl, asset, packageId) ==
  assetsPut(tbl, [asset EXCEPT !.packages = Append(@, packageId)])

\* `asset.packages.push(packageId)` changes the object Dexie returned, a
\* copy of the stored record; no put follows, the table keeps its record.
pushOwner(tbl, asset, packageId) == tbl

installPackage(p, packageId) ==
  /\ calls[p] = Idle
  /\ calls' = [calls EXCEPT ![p] =
       [Idle EXCEPT !.op = "installPackage", !.pc = "ip_check", !.pkg = packageId,
                    !.pre = Tables(assets, packages)]]
  /\ UNCHANGED <<repos, virtualBase, assets, packages, now>>

CheckInstalledReserving(p) ==
  LET c == calls[p] IN
  /\ c.pc = "ip_check"
  /\ calls' = [calls EXCEPT ![p] =
       IF packageInstalled(packages, c.pkg) THEN afterInstall(c)
       ELSE resolvePackageUrl(c)]
  /\ packages' =
       IF packageInstalled(packages, c.pkg) THEN packages
       ELSE packagesPut(packages,
              [id |-> c.pkg, acquiredAt |-> now, name |-> NoManifest.name,
               parent |-> NoManifest.parent, files |-> NoManifest.files])
  /\ UNCHANGED <<repos, virtualBase, assets, now>>

\* The read of db.packages.get, then fetchPackage's probes.
CheckInstalled(p) ==
  LET c == calls[p] IN
  /\ c.pc = "ip_check"
  /\ calls' = [calls EXCEPT ![p] =
       IF packageInstalled(packages, c.pkg) THEN afterInstall(c)
       ELSE resolvePackageUrl(c)]
  /\ UNCHANGED <<repos, virtualBase, assets, packages, now>>

\* `fetch(url)` of the archive settles; `res.blob()` is taken whatever the
\* status is.
ArchiveResponse(p) ==
  LET c == calls[p]
      i == Len(c.net)
  IN
  /\ c.pc = "fetching"
  /\ \/ calls' = [calls EXCEPT ![p] =
          Throw([c EXCEPT !.net[i].state = "failed"], "TypeError")]
     \/ \E arch \in Archives(c.pkg) :
          calls' = [calls EXCEPT ![p] =
            unpack([c EXCEPT !.net[i].state = "response", !.net[i].status = 200], arch)]
  /\ UNCHANGED <<repos, virtualBase, assets, packages, now>>

\* `const asset = await db.assets.get(hash)` and the branch on it.
LoopGet(p) ==
  LET c == calls[p]
      filename == c.manifest.files[c.idx][1]
      hash == c.manifest.files[c.idx][2]
      found == assetsGet(assets, hash)
  IN
  /\ c.pc = "loop_get"
  /\ IF found # {}
     THEN /\ assets' = pushOwner(assets, CHOOSE a \in found : TRUE, c.pkg)
          /\ calls' = [calls EXCEPT ![p] = forNext(c, c.idx + 1)]
     ELSE /\ assets' = assets
          /\ calls' = [calls EXCEPT ![p] =
               IF \E e \in c.files : e.name = filename
               THEN [c EXCEPT !.pc = "asset_put"]
               ELSE Throw(c, "TypeError")]
  /\ UNCHANGED <<repos, virtualBase, packages, now>>

\* `await db.assets.put({hash, data, type, packages: [packageId]})`
AssetPut(p) ==
  LET c == calls[p]
      filename == c.manifest.files[c.idx][1]
      hash == c.manifest.files[c.idx][2]
  IN
  /\ c.pc = "asset_put"
  /\ assets' = assetsPut(assets,
       [hash |-> hash,
        data |-> (CHOOSE e \in c.files : e.name = filename).data,
        type |-> mimeLookup(filename),
        packages |-> <<c.pkg>>])
  /\ calls' = [calls EXCEPT ![p] = forNext(c, c.idx + 1)]
  /\ UNCHANGED <<repos, virtualBase, packages, now>>

\* `await db.packages.put({...manifest, id: packageId, acquiredAt: new Date()})`
PackagePut(p) ==
  LET c == calls[p] IN
  /\ c.pc = "pkg_put"
  /\ \E t \in now..MaxTime :
       /\ now' = t
       /\ packages' = packagesPut(packages,
            [id |-> c.pkg, acquiredAt |-> t, name |-> c.manifest.name,
             parent |-> c.manifest.parent, files |-> c.manifest.files])
  /\ calls' = [calls EXCEPT ![p] = afterInstall(c)]
  /\ UNCHANGED <<repos, virtualBase, assets>>

----------------------------------------------------------------------------
\* getAsset

\* `err instanceof FetchError`: NotFoundError extends FetchError.
instanceofFetchError(err) == err \in {"FetchError", "NotFoundError"}

\* The URL branch after `await fetch(asset)`.
urlResult(out, url) ==
  IF out.state = "failed" THEN Thrown("TypeError")
  ELSE IF keyInArray(out.status, <<404, 410>>) THEN Thrown("NotFoundError")
  ELSE IF out.status # 200 THEN Thrown("FetchError")
  ELSE Blob(Body(url), ContentType(url))

\* The virtual-base loop from base i on.  Each base is tried by a
\* recursive getAsset on `${base}/${asset}`, a URL: with cacheOnly that
\* call returns null at once and the loop goes on; otherwise it fetches.
RECURSIVE tryBase(_, _)
tryBase(c, i) ==
  IF i > Len(virtualBase.list) THEN Finish(c, Null)
  ELSE IF c.cacheOnly THEN tryBase(c, i + 1)
  ELSE [c EXCEPT !.vb = i,
                 !.pc = "url_fetch",
                 !.net = Append(c.net, Request("GET", baseUrl(virtualBase.list[i], c.asset)))]

virtualBaseStepNoReturn(c, inner) ==
  IF inner.kind = "throw" /\ ~instanceofFetchError(inner.err)
  THEN Finish(c, inner)
  ELSE tryBase(c, c.vb + 1)

\* `if (data) return data;` and the catch clause of the loop body.
virtualBaseStep(c, inner) ==
  IF inner.kind = "throw"
  THEN IF instanceofFetchError(inner.err) THEN tryBase(c, c.vb + 1)
       ELSE Finish(c, inner)
  ELSE IF inner.kind = "blob" THEN Finish(c, inner)
  ELSE tryBase(c, c.vb + 1)

\* The URL branch up to its fetch.
fetchUrl(c, url) ==
  IF c.cacheOnly THEN Finish(c, Null)
  ELSE [c EXCEPT !.pc = "url_fetch", !.net = Append(c.net, Request("GET", url))]

assetCachedNever(tbl, hash) == FALSE

\* `let resource = await db.assets.get(resourceId); if (!resource) ...`
assetCached(tbl, hash) == assetsGet(tbl, hash) # {}

\* `new Blob([resource.data], { type: resource.type })`
blobOf(tbl, hash) ==
  LET resource == CHOOSE a \in assetsGet(tbl, hash) : TRUE
  IN  Blob(resource.data, resource.type)

cacheMissIgnoringCacheOnly(c) ==
  [c EXCEPT !.pc = "ip_check", !.pkg = packageIdOf(c.asset)]

\* `if (cacheOnly) return null; await this.installPackage(packageId);`
cacheMiss(c) ==
  IF c.cacheOnly THEN Finish(c, Null)
  ELSE [c EXCEPT !.pc = "ip_check", !.pkg = packageIdOf(c.asset)]

getAsset(p, asset, cacheOnly) ==
  LET c == [Idle EXCEPT !.op = "getAsset", !.asset = asset, !.cacheOnly = cacheOnly] IN
  /\ calls[p] = Idle
  /\ calls' = [calls EXCEPT ![p] =
       IF ~startsWith(asset, "@") /\ ~isURL(asset) /\ virtualBase.defined
       THEN tryBase(c, 1)
       ELSE IF isURL(asset) THEN fetchUrl(c, asset)
       ELSE [c EXCEPT !.pc = "ga_get"]]
  /\ UNCHANGED <<repos, virtualBase, assets, packages, now>>

\* `await fetch(asset)` settles, for a direct URL (vb = 0) or for the
\* virtual base being tried.
UrlResponse(p) ==
  LET c == calls[p]
      i == Len(c.net)
  IN
  /\ c.pc = "url_fetch"
  /\ \E out \in FetchOutcomes :
       LET d == [c EXCEPT !.net[i].state = out.state, !.net[i].status = out.status]
           inner == urlResult(out, c.net[i].url)
       IN  calls' = [calls EXCEPT ![p] =
                       IF c.vb = 0 THEN Finish(d, inner) ELSE virtualBaseStep(d, inner)]
  /\ UNCHANGED <<repos, virtualBase, assets, packages, now>>

\* The first `db.assets.get(resourceId)`; Dexie rejects a get of undefined.
AssetGet(p) ==
  LET c == calls[p] IN
  /\ c.pc = "ga_get"
  /\ calls' = [calls EXCEPT ![p] =
       IF ~resourceIdDefined(c.asset) THEN Throw(c, "DataError")
       ELSE IF assetCached(assets, resourceIdOf(c.asset))
            THEN Finish(c, blobOf(assets, resourceIdOf(c.asset)))
            ELSE cacheMiss(c)]
  /\ UNCHANGED <<repos, virtualBase, assets, packages, now>>

\* The second `db.assets.get(resourceId)`, after installPackage returned.
AssetReget(p) ==
  LET c == calls[p] IN
  /\ c.pc = "ga_reget"
  /\ calls' = [calls EXCEPT ![p] =
       IF assetCached(assets, resourceIdOf(c.asset))
       THEN Finish(c, blobOf(assets, resourceIdOf(c.asset)))
       ELSE Throw(c, "NotFoundError")]
  /\ UNCHANGED <<repos, virtualBase, assets, packages, now>>

----------------------------------------------------------------------------
\* deletePackage, clearAll

\* `const pkg = db.packages.get(packageId)` is not awaited: pkg is the
\* promise, pkg.files is undefined and Object.values(undefined) throws a
\* TypeError before any table is touched.
deletePackage(p, packageId) ==
  /\ calls[p] = Idle
  /\ calls' = [calls EXCEPT ![p] =
       Throw([Idle EXCEPT !.op = "deletePackage", !.pkg = packageId], "TypeError")]
  /\ UNCHANGED <<repos, virtualBase, assets, packages, now>>

\* `Promise.all([db.assets.clear(), db.packages.clear()])`: two store
\* operations, started together, completing in either order.
clearAll(p) ==
  /\ calls[p] = Idle
  /\ calls' = [calls EXCEPT ![p] = [Idle EXCEPT !.op = "clearAll", !.pc = "clearing"]]
  /\ UNCHANGED <<repos, virtualBase, assets, packages, now>>

cleared(c, table) ==
  IF c.cleared \cup {table} = {"assets", "packages"}
  THEN Finish([c EXCEPT !.cleared = c.cleared \cup {table}], Undefined)
  ELSE [c EXCEPT !.cleared = c.cleared \cup {table}]

ClearAssets(p) ==
  LET c == calls[p] IN
  /\ c.pc = "clearing"
  /\ "assets" \notin c.cleared
  /\ assets' = {}
  /\ calls' = [calls EXCEPT ![p] = cleared(c, "assets")]
  /\ UNCHANGED <<repos, virtualBase, packages, now>>

ClearPackages(p) ==
  LET c == calls[p] IN
  /\ c.pc = "clearing"
  /\ "packages" \notin c.cleared
  /\ packages' = {}
  /\ calls' = [calls EXCEPT ![p] = cleared(c, "packages")]
  /\ UNCHANGED <<repos, virtualBase, assets, now>>

\* The caller takes the settled result, once every request of the call has
\* been answered; the call's locals are dropped.
Return(p) ==
  LET c == calls[p] IN
  /\ c.pc = "done"
  /\ Inflight(c) = {}
  /\ calls' = [calls EXCEPT ![p] = Idle]
  /\ UNCHANGED <<repos, virtualBase, assets, packages, now>>

----------------------------------------------------------------------------
\* Inputs and specifications

Ref(packageId, hash) == <<"@">> \o packageId \o <<"/">> \o hash

BarePath == <<"b", "anana", ".gif">>
BareDirPath == <<"m", "isc", "/", "x", ".png">>

AssetIds ==
  { Ref(PkgA, H1), Ref(PkgB, H1), Ref(PkgB, H2), Ref(PkgA, H3),
    <<"@">> \o PkgA,
    baseUrl(BASE, BarePath),
    BarePath, BareDirPath }

\* The steps of the calls in progress.
Step(p) ==
  \/ CheckInstalled(p)
  \/ \E i \in 1..Len(calls[p].net) : ProbeResponse(p, i)
  \/ ArchiveResponse(p)
  \/ LoopGet(p)
  \/ AssetPut(p)
  \/ PackagePut(p)
  \/ UrlResponse(p)
  \/ AssetGet(p)
  \/ AssetReget(p)
  \/ ClearAssets(p)
  \/ ClearPackages(p)
  \/ Return(p)

\* One call at a time: a call starts when no other is in progress.
Next ==
  \E p \in Callers :
    \/ Quiescent /\ \E id \in KnownPackages : installPackage(p, id)
    \/ Quiescent /\ \E a \in AssetIds, co \in BOOLEAN : getAsset(p, a, co)
    \/ Quiescent /\ \E id \in KnownPackages : deletePackage(p, id)
    \/ Quiescent /\ clearAll(p)
    \/ Step(p)

Spec == Init /\ [][Next]_vars

----------------------------------------------------------------------------
\* Properties

Range(seq) == {seq[i] : i \in 1..Len(seq)}

Installed(id) == \E r \in packages : r.id = id

\* The hashes a stored Package record declares.
Declared(r) == {r.files[i][2] : i \in 1..Len(r.files)}

\* No call is between its first and its last step.
Settled == \A p \in Callers : calls[p].pc \in {"idle", "done"}

\* Every owner an Asset record lists is an installed package: no install
\* has stopped partway.
NoOrphanOwner == \A a \in assets : \A id \in Range(a.packages) : Installed(id)

IsBare(asset) == ~startsWith(asset, "@") /\ ~isURL(asset)

\* C1: after successful installs of packages sharing a hash h, the store
\* holds exactly one Asset record for h, and the owner set it stores is the
\* set of installed packages whose manifest declares h.
C1_DedupInvariant ==
  (Settled /\ NoOrphanOwner) =>
    \A r \in packages : \A h \in Declared(r) :
      /\ Cardinality(assetsGet(assets, h)) = 1
      /\ \A a \in assetsGet(assets, h) :
           Range(a.packages) = {q.id : q \in {x \in packages : h \in Declared(x)}}

\* C2: every file of an installed package has an Asset record in the store
\* whose stored owner set contains the package, also when the hash was
\* stored by an earlier install.
C2_ReferentialIntegrity ==
  (Settled /\ NoOrphanOwner) =>
    \A r \in packages : \A h \in Declared(r) :
      \E a \in assetsGet(assets, h) : r.id \in Range(a.packages)

\* C3: the step that runs deletePackage(P) for an installed P leaves no
\* Package record of P, no Asset owned by P and no Asset without owner, and
\* keeps the bytes of the Assets that stay.
C3_DeletionCorrectness ==
  [][\A p \in Callers :
       (calls[p] = Idle /\ calls'[p].op = "deletePackage" /\ Installed(calls'[p].pkg)) =>
         /\ \A r \in packages' : r.id # calls'[p].pkg
         /\ \A a \in assets' : calls'[p].pkg \notin Range(a.packages) /\ a.packages # <<>>
         /\ \A a \in assets' : \E b \in assets : b.hash = a.hash /\ b.data = a.data
         /\ calls'[p].result = Undefined]_vars

\* C4: installPackage(P) on a store that holds P's Package record returns
\* at its first step, with no request issued and both tables as they were.
C4_IdempotentInstall ==
  [][\A p \in Callers :
       (/\ calls[p].op = "installPackage"
        /\ calls[p].pc = "ip_check"
        /\ Installed(calls[p].pkg)
        /\ calls'[p] # calls[p]) =>
         /\ calls'[p].pc = "done"
         /\ calls'[p].result = Undefined
         /\ calls'[p].net = <<>>
         /\ assets' = assets
         /\ packages' = packages]_vars

C4_Witness ==
  \E p \in Callers :
    /\ calls[p].op = "installPackage"
    /\ calls[p].pc = "done"
    /\ calls[p].result = Undefined
    /\ calls[p].net = <<>>
    /\ Installed(calls[p].pkg)

\* C5: getAsset('@P/h') with h in the store returns the stored bytes and
\* type at its lookup, with no request and no install, whatever cacheOnly
\* is and whether or not P is installed.
C5_ResolutionPrecedence ==
  [][\A p \in Callers :
       (/\ calls[p].op = "getAsset"
        /\ calls[p].pc = "ga_get"
        /\ resourceIdDefined(calls[p].asset)
        /\ assetsGet(assets, resourceIdOf(calls[p].asset)) # {}
        /\ calls'[p] # calls[p]) =>
         /\ calls'[p].pc = "done"
         /\ \E a \in assetsGet(assets, resourceIdOf(calls[p].asset)) :
              calls'[p].result = Blob(a.data, a.type)
         /\ calls'[p].net = <<>>
         /\ assets' = assets
         /\ packages' = packages]_vars

C5_Witness ==
  \E p \in Callers :
    /\ calls[p].op = "getAsset"
    /\ calls[p].asset = Ref(PkgB, H1)
    /\ ~calls[p].cacheOnly
    /\ ~Installed(PkgB)
    /\ calls[p].pc = "done"
    /\ calls[p].result = Blob(Bytes(H1), "image/png")
    /\ calls[p].net = <<>>

\* C6: for a bare path the bases are requested in list order, one at a
\* time, the next only after the previous yielded no asset; the first base
\* that answers with an asset ends the call with that asset.
C6_FallbackChainOrder ==
  \A p \in Callers :
    LET c == calls[p] IN
    (c.op = "getAsset" /\ IsBare(c.asset) /\ virtualBase.defined) =>
      /\ Len(c.net) <= Len(virtualBase.list)
      /\ \A i \in 1..Len(c.net) :
           /\ c.net[i].method = "GET"
           /\ c.net[i].url = baseUrl(virtualBase.list[i], c.asset)
           /\ i < Len(c.net) =>
                (c.net[i].state # "inflight" /\
                 ~(c.net[i].state = "response" /\ c.net[i].status = 200))
           /\ (c.net[i].state = "response" /\ c.net[i].status = 200) =>
                /\ c.pc = "done"
                /\ c.result = Blob(Body(c.net[i].url), ContentType(c.net[i].url))
      /\ (c.pc = "done" /\ c.result.kind = "blob") =>
           (Len(c.net) >= 1 /\ c.net[Len(c.net)].state = "response"
              /\ c.net[Len(c.net)].status = 200)

C6_Witness ==
  \E p \in Callers :
    LET c == calls[p] IN
    /\ c.op = "getAsset"
    /\ c.asset = BarePath
    /\ virtualBase.list = <<BROKEN, BASE>>
    /\ c.pc = "done"
    /\ Len(c.net) = 2
    /\ c.net[1].state = "response" /\ c.net[1].status = 404
    /\ c.result = Blob(Body(baseUrl(BASE, BarePath)), "image/gif")

\* What a getAsset call with cacheOnly set may look like in any state.
C7_CacheOnlyState ==
  \A p \in Callers :
    LET c == calls[p] IN
    (c.op = "getAsset" /\ c.cacheOnly) =>
      /\ c.net = <<>>
      /\ c.pc \in {"ga_get", "done"}
      /\ (c.pc = "done" /\ isURL(c.asset)) => c.result = Null
      /\ (c.pc = "done" /\ IsBare(c.asset) /\ virtualBase.defined) => c.result = Null
      /\ (c.pc = "done" /\ startsWith(c.asset, "@") /\ resourceIdDefined(c.asset)
            /\ assetsGet(assets, resourceIdOf(c.asset)) = {}) => c.result = Null

\* C7: a getAsset call with cacheOnly set issues no request and starts no
\* install, no step changes a table while it is in progress, and it
\* returns null for a direct URL and for a package reference whose hash is
\* not stored.
C7_CacheOnlyNoNetwork ==
  /\ []C7_CacheOnlyState
  /\ [][(\E p \in Callers : calls[p].op = "getAsset" /\ calls[p].cacheOnly) =>
          (assets' = assets /\ packages' = packages)]_vars

C7_Witness ==
  \E p \in Callers :
    LET c == calls[p] IN
    /\ c.op = "getAsset"
    /\ c.cacheOnly
    /\ c.asset = Ref(PkgB, H2)
    /\ assets # {}
    /\ assetsGet(assets, H2) = {}
    /\ c.pc = "done"
    /\ c.result = Null

\* C8: in the virtual-base chain a base whose request fails otherwise than
\* with 404 or 410 is the last base requested, and the call ends with an
\* error.
C8_VirtualBaseErrorPropagation ==
  \A p \in Callers :
    LET c == calls[p] IN
    (c.op = "getAsset" /\ IsBare(c.asset) /\ virtualBase.defined) =>
      \A i \in 1..Len(c.net) :
        (\/ c.net[i].state = "failed"
         \/ c.net[i].state = "response" /\ c.net[i].status \notin {200, 404, 410}) =>
          (i = Len(c.net) /\ c.pc = "done" /\ c.result.kind = "throw")

\* C9: for a direct URL without cacheOnly, the not-found error is raised
\* exactly for the statuses 404 and 410, the generic fetch error for every
\* other status but 200, and 200 returns the response's bytes.
C9_StatusClassification ==
  \A p \in Callers :
    LET c == calls[p] IN
    (c.op = "getAsset" /\ isURL(c.asset) /\ ~c.cacheOnly /\ c.pc = "done"
       /\ c.net[1].state = "response") =>
      /\ c.result = Thrown("NotFoundError") <=> c.net[1].status \in {404, 410}
      /\ c.result = Thrown("FetchError") <=> c.net[1].status \notin {200, 404, 410}
      /\ c.result = Blob(Body(c.asset), ContentType(c.asset)) <=> c.net[1].status = 200

\* The probes of a call, and those answered with status 200.
Probes(c) == {i \in 1..Len(c.net) : c.net[i].method = "OPTIONS"}
Exists200(c, i) == c.net[i].state = "response" /\ c.net[i].status = 200

\* C10: all probes are sent together; the promise of resolvePackageUrl is
\* resolved exactly when some probe has answered 200, with the url of the
\* probe whose 200 arrived first, and the archive is requested there; it
\* is rejected only when every probe has failed; later responses change
\* neither.
C10_RepositoryRace ==
  \A p \in Callers :
    LET c == calls[p]
        winners == {k \in 1..Len(c.arrivals) : Exists200(c, c.arrivals[k])}
    IN
    /\ Probes(c) # {} =>
         /\ Probes(c) = 1..Len(repos)
         /\ \A i \in Probes(c) : c.net[i].url = archiveUrl(repos[i], c.pkg)
    /\ Range(c.arrivals) = {i \in Probes(c) : c.net[i].state # "inflight"}
    /\ c.promise.state = "resolved" <=> winners # {}
    /\ winners # {} =>
         LET first == c.arrivals[CHOOSE k \in winners : \A j \in winners : k <= j] IN
         /\ c.promise.value = c.net[first].url
         /\ Len(c.net) = Len(repos) + 1
         /\ c.net[Len(c.net)].method = "GET"
         /\ c.net[Len(c.net)].url = c.net[first].url
         /\ c.result # Thrown("No repositories contain package")
    /\ c.promise.state = "rejected" <=>
         (Probes(c) # {} /\ \A i \in Probes(c) :
            c.net[i].state # "inflight" /\ ~Exists200(c, i))

C10_Witness ==
  \E p \in Callers :
    LET c == calls[p] IN
    /\ repos = <<REPO, BROKEN>>
    /\ c.arrivals = <<2, 1>>
    /\ Exists200(c, 1)
    /\ Exists200(c, 2)
    /\ c.promise = [state |-> "resolved", value |-> archiveUrl(BROKEN, c.pkg)]
    /\ c.pc = "done"
    /\ c.result = Undefined

\* The race of resolvePackageUrl has been started by the call.
RaceStarted(c) == c.pc = "probing" \/ c.promise.state # "pending"

\* C11: once every probe has resolved negatively (none outstanding, none
\* answered 200), whatever the length of the repository list, the call has
\* failed with the 'no repositories' error; that error is delivered only
\* then.
C11_RepositoryNotFound ==
  \A p \in Callers :
    LET c == calls[p]
        negative == \A i \in Probes(c) : c.net[i].state # "inflight" /\ ~Exists200(c, i)
    IN
    /\ (RaceStarted(c) /\ negative) =>
         (c.promise.state = "rejected" /\ c.pc = "done"
            /\ c.result = Thrown("No repositories contain package"))
    /\ (c.promise.state = "rejected" \/ c.result = Thrown("No repositories contain package"))
         => negative

\* The errors of an install that never reached its file loop: no repository
\* answered 200, the archive request or the zip decoding failed, asset.json
\* is missing or is not JSON.
FailedBeforeMerge(c) ==
  /\ c.op = "installPackage"
  /\ c.pc = "done"
  /\ c.result.kind = "throw"
  /\ \/ c.result.err \in {"No repositories contain package", "Error", "SyntaxError"}
     \/ c.result.err = "TypeError" /\ c.idx = 0

\* C12: when installPackage(P) has failed because no repository hosts P, or
\* the archive cannot be decoded, or the manifest is missing or malformed,
\* P has no Package record and both tables are as they were when the call
\* was made.
C12_FailedInstallKeepsStore ==
  \A p \in Callers :
    FailedBeforeMerge(calls[p]) =>
      /\ ~Installed(calls[p].pkg)
      /\ assets = calls[p].pre.assets
      /\ packages = calls[p].pre.packages

C12_Witness ==
  \E p \in Callers :
    /\ FailedBeforeMerge(calls[p])
    /\ calls[p].result.err = "SyntaxError"
    /\ calls[p].pkg = PkgB
    /\ Installed(PkgA)
    /\ assets # {}

\* C13: on a resolver without virtual base, getAsset of an identifier that
\* neither starts with '@' nor is a URL issues no request, starts no package
\* lookup or install, and ends with an error, for both values of cacheOnly.
C13_BarePathWithoutVirtualBase ==
  \A p \in Callers :
    LET c == calls[p] IN
    (c.op = "getAsset" /\ IsBare(c.asset) /\ ~virtualBase.defined) =>
      /\ c.net = <<>>
      /\ c.pc \in {"ga_get", "done"}
      /\ c.pc = "done" => c.result.kind = "throw"

----------------------------------------------------------------------------
\* Installs that stop partway

\* The positions of installPackage after its existence check.
InstallPcs == {"probing", "fetching", "loop_get", "asset_put", "pkg_put"}

\* The page is closed or reloaded while installPackage is in progress: the
\* call and its requests are gone, the IndexedDB tables stay as they are.
Abandon(p) ==
  LET c == calls[p] IN
  /\ c.op = "installPackage"
  /\ c.pc \in InstallPcs
  /\ calls' = [calls EXCEPT ![p] =
       [Idle EXCEPT !.op = "installPackage", !.pc = "stopped", !.pkg = c.pkg,
                    !.pre = c.pre, !.stopped = [pc |-> c.pc, idx |-> c.idx]]]
  /\ UNCHANGED <<repos, virtualBase, assets, packages, now>>

\* The next session calls installPackage for the same package again.
Retry(p) ==
  LET c == calls[p] IN
  /\ c.pc = "stopped"
  /\ calls' = [calls EXCEPT ![p] =
       [Idle EXCEPT !.op = "installPackage", !.pc = "ip_check", !.pkg = c.pkg,
                    !.pre = c.pre, !.stopped = c.stopped]]
  /\ UNCHANGED <<repos, virtualBase, assets, packages, now>>

\* The next session goes on without repeating the install.
Restart(p) ==
  /\ calls[p].pc = "stopped"
  /\ calls' = [calls EXCEPT ![p] = Idle]
  /\ UNCHANGED <<repos, virtualBase, assets, packages, now>>

\* One call at a time, where an install may stop at any of its awaits.
NextAbandon ==
  \E p \in Callers :
    \/ Quiescent /\ \E id \in KnownPackages : installPackage(p, id)
    \/ Quiescent /\ \E a \in AssetIds, co \in BOOLEAN : getAsset(p, a, co)
    \/ Quiescent /\ \E id \in KnownPackages : deletePackage(p, id)
    \/ Quiescent /\ clearAll(p)
    \/ Step(p)
    \/ Abandon(p)
    \/ Retry(p)
    \/ Restart(p)

SpecAbandon == Init /\ [][NextAbandon]_vars

ClearInProgress == \E p \in Callers : calls[p].pc = "clearing"

\* C14: in every state of an install, also of one that failed or stopped
\* partway, P has no Package record before its files are merged, and every
\* Package record in the store has an Asset record for each hash of its
\* manifest.
C14_MergeBeforeRecord ==
  /\ \A p \in Callers :
       (calls[p].op = "installPackage" /\ calls[p].pc \in InstallPcs \cup {"stopped"})
         => ~Installed(calls[p].pkg)
  /\ ~ClearInProgress =>
       \A r \in packages : \A h \in Declared(r) : assetsGet(assets, h) # {}

C14_Witness ==
  \E p \in Callers :
    /\ calls[p].pc = "stopped"
    /\ calls[p].pkg = PkgB
    /\ Installed(PkgA)
    /\ \E a \in assets : a.hash = H2 /\ a.packages = <<PkgB>>
    /\ ~Installed(PkgB)


\* Failures of the repositories or of the archive, not of the install itself.
EnvironmentErrors == {"No repositories contain package", "Error", "SyntaxError", "TypeError"}

\* C15: an installPackage of pkgC, whose manifest declares the parent
\* pkgA, that got pkgC's archive from a repository returns normally with
\* pkgC and pkgA installed, and pkgA's Package record is in the store
\* whenever a file of pkgC is being merged.
C15_DependencyFirst ==
  \A p \in Callers :
    LET c == calls[p] IN
    (c.op = "installPackage" /\ c.pkg = PkgC) =>
      /\ (c.pc = "done" /\ (c.result.kind = "throw" => c.result.err \notin EnvironmentErrors))
           => (c.result = Undefined /\ Installed(PkgC) /\ Installed(Manifest(PkgC).parent))
      /\ c.pc \in {"loop_get", "asset_put", "pkg_put"} => Installed(Manifest(PkgC).parent)


RECURSIVE ParentChain(_, _)
\* The packages reached from id by following `parent`, n links at most.
ParentChain(id, n) ==
  IF n = 0 \/ Manifest(id).parent = <<>> THEN {}
  ELSE {Manifest(id).parent} \cup ParentChain(Manifest(id).parent, n - 1)

CyclicPackages == {id \in KnownPackages : id \in ParentChain(id, Cardinality(KnownPackages))}

ArchiveRequests(c) == {i \in 1..Len(c.net) : c.net[i].method = "GET"}

\* C16: installPackage of a package on a parent cycle never enters the file
\* loop and requests one archive at most; when it is done it has thrown;
\* no package of a cycle ever has a Package record.
C16_ParentCycle ==
  /\ \A p \in Callers :
       LET c == calls[p] IN
       (c.op = "installPackage" /\ c.pkg \in CyclicPackages) =>
         /\ c.pc \in {"ip_check", "probing", "fetching", "done"}
         /\ Cardinality(ArchiveRequests(c)) <= 1
         /\ c.pc = "done" => c.result.kind = "throw"
  /\ \A id \in CyclicPackages : ~Installed(id)

C16_Witness ==
  \E p \in Callers :
    /\ calls[p].op = "installPackage" /\ calls[p].pkg = PkgF
    /\ PkgF \in CyclicPackages /\ PkgE \in CyclicPackages /\ PkgC \notin CyclicPackages
    /\ calls[p].pc = "done" /\ calls[p].result = Thrown("ReferenceError")


RECURSIVE mergeFiles(_, _, _, _)
\* The file loop of installPackage run from file i on without interruption,
\* on an archive that holds every payload.
mergeFiles(tbl, packageId, files, i) ==
  IF i > Len(files) THEN tbl
  ELSE LET found == assetsGet(tbl, files[i][2])
       IN  mergeFiles(IF found # {}
                      THEN pushOwner(tbl, CHOOSE a \in found : TRUE, packageId)
                      ELSE assetsPut(tbl, [hash |-> files[i][2],
                                           data |-> Bytes(files[i][2]),
                                           type |-> mimeLookup(files[i][1]),
                                           packages |-> <<packageId>>]),
                      packageId, files, i + 1)

\* The tables one uninterrupted install of packageId makes of `pre`.
UninterruptedInstall(pre, packageId) ==
  Tables(mergeFiles(pre.assets, packageId, Manifest(packageId).files, 1),
         packagesPut(pre.packages,
           [id |-> packageId, acquiredAt |-> 0, name |-> Manifest(packageId).name,
            parent |-> Manifest(packageId).parent, files |-> Manifest(packageId).files]))

WithoutDate(tbl) == {[r EXCEPT !.acquiredAt = 0] : r \in tbl}

Completed(c) ==
  /\ c.op = "installPackage" /\ c.pc = "done" /\ c.result = Undefined
  /\ ~packageInstalled(c.pre.packages, c.pkg)

\* C18: an installPackage(P) that repeats an install stopped at any await
\* before P's Package record was written starts at the existence check,
\* and when it returns the store equals, apart from acquiredAt, the store
\* one uninterrupted install of P makes of the tables the first call
\* started on, with one Package record for P; an install that never
\* stopped ends in that same store.
C18_RetryAfterPartialInstall ==
  /\ [](\A p \in Callers :
         Completed(calls[p]) =>
           /\ assets = UninterruptedInstall(calls[p].pre, calls[p].pkg).assets
           /\ WithoutDate(packages) =
                WithoutDate(UninterruptedInstall(calls[p].pre, calls[p].pkg).packages)
           /\ Cardinality(packagesGet(packages, calls[p].pkg)) = 1)
  /\ [][\A p \in Callers :
          (calls[p].pc = "stopped" /\ calls'[p].pc \notin {"stopped", "idle"})
            => (calls'[p].pc = "ip_check" /\ calls'[p].pkg = calls[p].pkg
                  /\ ~Installed(calls[p].pkg))]_vars

C18_Witness ==
  \E p \in Callers :
    /\ Completed(calls[p])
    /\ calls[p].pkg = PkgB
    /\ calls[p].stopped = [pc |-> "asset_put", idx |-> 2]
    /\ calls[p].pre.assets = {}
    /\ \E a \in assets : a.hash = H1 /\ a.packages = <<PkgB>>
    /\ \E a \in assets : a.hash = H2 /\ a.packages = <<PkgB>>

----------------------------------------------------------------------------
\* Overlapping calls

\* Inputs of the overlapping calls.
ConcPackages == {PkgA, PkgB}
ConcAssetIds == {Ref(PkgB, H2)}

\* Calls are made without awaiting the ones in progress: a caller starts a
\* call whenever its own last call has returned, and the steps of the
\* calls in progress interleave at their awaits.
NextConc ==
  \E p \in Callers :
    \/ \E id \in ConcPackages : installPackage(p, id)
    \/ \E a \in ConcAssetIds : getAsset(p, a, FALSE)
    \/ clearAll(p)
    \/ CheckInstalled(p)
    \/ \E i \in 1..Len(calls[p].net) : ProbeResponse(p, i)
    \/ ArchiveResponse(p)
    \/ LoopGet(p)
    \/ AssetPut(p)
    \/ PackagePut(p)
    \/ AssetGet(p)
    \/ AssetReget(p)
    \/ ClearAssets(p)
    \/ ClearPackages(p)
    \/ Return(p)

\* Overlapping calls are checked on the default repository list, without
\* virtual bases (no bare path is among their inputs).
InitConc == Init /\ repos = DEFAULT_REPOS /\ ~virtualBase.defined

SpecConc == InitConc /\ [][NextConc]_vars

\* An install, called directly or from getAsset, is between its existence
\* check and its last write.
Installing(c) == c.pc \in InstallPcs \cup {"ip_check"}

\* C17: while two calls are both installing the same package, one of them
\* at most has sent requests for it (probes or the archive request): the
\* package is located and fetched once.
C17_InflightDedup ==
  \A p, q \in Callers :
    (p # q /\ Installing(calls[p]) /\ Installing(calls[q]) /\ calls[p].pkg = calls[q].pkg)
      => ~(calls[p].net # <<>> /\ calls[q].net # <<>>)


\* Two calls of installPackage for one package that both fetched its
\* archive and both returned.
BothInstalled(p, q) ==
  /\ p # q
  /\ calls[p].pkg = calls[q].pkg
  /\ \A r \in {p, q} :
       /\ calls[r].op = "installPackage" /\ calls[r].pc = "done"
       /\ calls[r].result = Undefined
       /\ ArchiveRequests(calls[r]) # {}

Occurrences(seq, x) == Cardinality({i \in 1..Len(seq) : seq[i] = x})

\* The store holds what the two calls' package declares: one Package
\* record and, for each hash, one Asset record with the bytes of the hash.
Converged(id) ==
  /\ Cardinality(packagesGet(packages, id)) = 1
  /\ \A i \in 1..Len(Manifest(id).files) :
       /\ Cardinality(assetsGet(assets, Manifest(id).files[i][2])) = 1
       /\ \A a \in assetsGet(assets, Manifest(id).files[i][2]) :
            a.data = Bytes(Manifest(id).files[i][2])

\* C19: once two overlapping installPackage(P) calls have both returned,
\* the store holds one Package record for P and, for each hash of P's
\* manifest, one Asset record whose owner sequence lists P exactly once.
C19_ConcurrentInstallsConverge ==
  \A p, q \in Callers :
    BothInstalled(p, q) =>
      /\ Converged(calls[p].pkg)
      /\ \A i \in 1..Len(Manifest(calls[p].pkg).files) :
           \A a \in assetsGet(assets, Manifest(calls[p].pkg).files[i][2]) :
             Occurrences(a.packages, calls[p].pkg) = 1

\* The same without the owner lists.
C19_ConvergedApartFromOwners ==
  \A p, q \in Callers : BothInstalled(p, q) => Converged(calls[p].pkg)


\* C20: when every call has returned, clearAll racing an install or not,
\* each Package record in the store has an Asset record for every hash of
\* its manifest; and a clearAll that has returned with no other call in
\* progress since it was made (C20_ClearAllAlone, for calls made one at a
\* time) leaves both tables empty.
C20_ClearAllRacingInstall ==
  Settled => \A r \in packages : \A h \in Declared(r) : assetsGet(assets, h) # {}

\* The second part of C20, for calls made one at a time.
C20_ClearAllAlone ==
  \A p \in Callers :
    (calls[p].op = "clearAll" /\ calls[p].pc = "done") => (assets = {} /\ packages = {})

====
